---- MODULE Spec2Model ----
(***************************************************************************)
(* Multi-source event scraper (events_scraper.py): the three source        *)
(* adapters, the duplicate filter, the catalog store and the pipeline      *)
(* main().                                                                 *)
(*                                                                         *)
(* A deserialized JSON value is a record [t, s, kids]:                     *)
(*   t    : "null" | "str" | "num" | "list" | "dict"                       *)
(*   s    : the text of a string (a sequence of tokens) or the digits of   *)
(*          a number, <<>> otherwise                                       *)
(*   kids : the elements of a list (k = "") or the key/value pairs of a    *)
(*          dict in insertion order, <<>> otherwise                        *)
(* Python's None is the JSON null.  A function that may raise returns a    *)
(* record whose field ok is FALSE when it raised.                          *)
(***************************************************************************)
EXTENDS Integers, Sequences, FiniteSets, TLC

VARIABLES
  pa_payload, pa_pc, pa_result,
  dd_in, dd_pc, dd_out,
  store, last_call,
  pc, run, all_events, log_counts, csv_files, log, trace, error,
  first_inserted, store_at_start, log_at_start, csv_at_start

vars == << pa_payload, pa_pc, pa_result, dd_in, dd_pc, dd_out, store,
           last_call, pc, run, all_events, log_counts, csv_files, log, trace,
           error, first_inserted, store_at_start, log_at_start, csv_at_start >>

adapterVars == << pa_payload, pa_pc, pa_result >>
dedupVars == << dd_in, dd_pc, dd_out >>
mainVars == << pc, run, all_events, log_counts, csv_files, log, trace, error,
               first_inserted, store_at_start, log_at_start, csv_at_start >>

----------------------------------------------------------------------------
(* JSON values and the Python idioms the adapters use on them              *)

JNull == [t |-> "null", s |-> <<>>, kids |-> <<>>]
JStr(x) == [t |-> "str", s |-> x, kids |-> <<>>]
JNum(d) == [t |-> "num", s |-> <<d>>, kids |-> <<>>]
JList(elems) ==
  [t |-> "list", s |-> <<>>,
   kids |-> [i \in 1..Len(elems) |-> [k |-> "", v |-> elems[i]]]]
JDict(pairs) == [t |-> "dict", s |-> <<>>, kids |-> pairs]
KV(key, val) == [k |-> key, v |-> val]

\* bool(x): None, "", 0, [] and {} are falsy
Truthy(j) ==
  CASE j.t = "null" -> FALSE
    [] j.t = "str" -> j.s # <<>>
    [] j.t = "num" -> j.s # <<"0">>
    [] OTHER -> j.kids # <<>>

\* a or b
PyOr(a, b) == IF Truthy(a) THEN a ELSE b

HasKey(obj, key) == \E i \in 1..Len(obj.kids) : obj.kids[i].k = key

\* dict.get(key, default) on a dict
GetDefault(obj, key, default) ==
  IF HasKey(obj, key)
  THEN obj.kids[CHOOSE i \in 1..Len(obj.kids) : obj.kids[i].k = key].v
  ELSE default

\* dict.get(key) on a dict
Get(obj, key) == GetDefault(obj, key, JNull)

----------------------------------------------------------------------------
(* clean_html: text is a sequence of tokens, each a tag, an entity, a      *)
(* whitespace character or a run of plain characters                       *)

TagTokens == {"<p>", "</p>", "<br/>"}
SpaceTokens == {" ", "\n", "\t", "NBSP"}

\* html.unescape on one token
Unescape(tok) ==
  CASE tok = "&amp;" -> "&"
    [] tok = "&nbsp;" -> "NBSP"
    [] OTHER -> tok

RECURSIVE StripTags(_)
StripTags(txt) ==
  IF txt = <<>> THEN <<>>
  ELSE IF Head(txt) \in TagTokens THEN StripTags(Tail(txt))
  ELSE <<Head(txt)>> \o StripTags(Tail(txt))

RECURSIVE CollapseSpaces(_)
CollapseSpaces(txt) ==
  IF txt = <<>> THEN <<>>
  ELSE IF Head(txt) \in SpaceTokens
  THEN IF Len(txt) > 1 /\ txt[2] \in SpaceTokens
       THEN CollapseSpaces(Tail(txt))
       ELSE <<" ">> \o CollapseSpaces(Tail(txt))
  ELSE <<Head(txt)>> \o CollapseSpaces(Tail(txt))

Strip(txt) ==
  LET a == IF txt # <<>> /\ Head(txt) = " " THEN Tail(txt) ELSE txt
  IN IF a # <<>> /\ a[Len(a)] = " " THEN SubSeq(a, 1, Len(a) - 1) ELSE a

\* clean_html(raw_html): re.sub raises TypeError on a truthy non-string
clean_html(raw) ==
  IF ~Truthy(raw) THEN [ok |-> TRUE, val |-> JStr(<<>>)]
  ELSE IF raw.t # "str" THEN [ok |-> FALSE, val |-> JStr(<<>>)]
  ELSE LET noTags == StripTags(raw.s)
           decoded == [i \in 1..Len(noTags) |-> Unescape(noTags[i])]
       IN [ok |-> TRUE, val |-> JStr(Strip(CollapseSpaces(decoded)))]

----------------------------------------------------------------------------
(* Unified events                                                          *)

Event(src, cat, ttl, desc, sd, ed, loc, link) ==
  [source |-> src, category |-> cat, title |-> ttl, description |-> desc,
   start_date |-> sd, end_date |-> ed, location |-> loc, register_link |-> link]

NoEvent == Event(JNull, JNull, JNull, JNull, JNull, JNull, JNull, JNull)

Raised == [ok |-> FALSE, events |-> <<>>]
Returned(evs) == [ok |-> TRUE, events |-> evs]

\* the events of a loop over item results, or Raised when an iteration raised
Collect(results) ==
  IF \A i \in 1..Len(results) : results[i].ok
  THEN Returned([i \in 1..Len(results) |-> results[i].ev])
  ELSE Raised

----------------------------------------------------------------------------
(* UiPath adapter                                                          *)

RECURSIVE find_resource_data(_)
RECURSIVE ScanDict(_, _)
RECURSIVE ScanList(_, _)

\* for k, v in obj.items(): ...
ScanDict(kids, i) ==
  IF i > Len(kids) THEN JNull
  ELSE IF kids[i].k = "resourceData" /\ kids[i].v.t = "list" THEN kids[i].v
  ELSE LET found == find_resource_data(kids[i].v)
       IN IF Truthy(found) THEN found ELSE ScanDict(kids, i + 1)

\* for item in obj: ...
ScanList(kids, i) ==
  IF i > Len(kids) THEN JNull
  ELSE LET found == find_resource_data(kids[i].v)
       IN IF Truthy(found) THEN found ELSE ScanList(kids, i + 1)

find_resource_data(obj) ==
  IF obj.t = "dict" THEN ScanDict(obj.kids, 1)
  ELSE IF obj.t = "list" THEN ScanList(obj.kids, 1)
  ELSE JNull

\* one iteration of the loop over data
UipathItem(item) ==
  IF item.t # "dict" THEN [ok |-> FALSE, ev |-> NoEvent]
  ELSE
    LET category == PyOr(Get(item, "category"), JStr(<<"Webinar">>))
        slug == Get(item, "slug")
        slugOk == ~Truthy(slug) \/ slug.t = "str"
        register_link ==
          IF ~Truthy(slug) \/ slug.t # "str" THEN JNull
          ELSE IF slug.s[1] = "http" THEN slug
          ELSE JStr(<<"https://www.uipath.com">> \o slug.s)
        desc == clean_html(PyOr(Get(item, "teaserBody"), Get(item, "body")))
    IN IF ~slugOk \/ ~desc.ok THEN [ok |-> FALSE, ev |-> NoEvent]
       ELSE [ok |-> TRUE,
             ev |-> Event(JStr(<<"UiPath">>), category, Get(item, "title"),
                          desc.val, Get(item, "date"), JNull, JNull,
                          register_link)]

\* the loop over a list of raw items
UipathEvents(data) ==
  Collect([i \in 1..Len(data.kids) |-> UipathItem(data.kids[i].v)])

parse_uipath(json_data) ==
  LET data == find_resource_data(json_data)
  IN IF ~Truthy(data) THEN Returned(<<>>) ELSE UipathEvents(data)

----------------------------------------------------------------------------
(* NVIDIA adapter                                                          *)

NvidiaItem(item) ==
  IF item.t # "dict" THEN [ok |-> FALSE, ev |-> NoEvent]
  ELSE [ok |-> TRUE,
        ev |-> Event(JStr(<<"NVIDIA">>),
                     PyOr(Get(item, "type"), JStr(<<"Conference">>)),
                     Get(item, "title"), JNull, Get(item, "startDate"),
                     Get(item, "endDate"),
                     PyOr(Get(item, "location"), Get(item, "venue")),
                     Get(item, "url"))]

\* iterating a truthy dict, string or number yields keys or characters, which
\* have no get(), or raises TypeError
parse_nvidia(json_data) ==
  LET data == IF json_data.t = "dict"
              THEN GetDefault(json_data, "events", JList(<<>>))
              ELSE json_data
  IN IF ~Truthy(data) THEN Returned(<<>>)
     ELSE IF data.t # "list" THEN Raised
     ELSE Collect([i \in 1..Len(data.kids) |-> NvidiaItem(data.kids[i].v)])

----------------------------------------------------------------------------
(* AWS adapter                                                             *)

AwsItem(i) ==
  IF i.t # "dict" THEN [ok |-> FALSE, ev |-> NoEvent]
  ELSE
    LET item == GetDefault(i, "item", JDict(<<>>))
    IN IF item.t # "dict" THEN [ok |-> FALSE, ev |-> NoEvent]
       ELSE
         LET fields == GetDefault(item, "additionalFields", JDict(<<>>))
         IN IF fields.t # "dict" THEN [ok |-> FALSE, ev |-> NoEvent]
            ELSE
              LET desc == clean_html(PyOr(Get(fields, "bodyBack"),
                                          Get(fields, "body")))
              IN IF ~desc.ok THEN [ok |-> FALSE, ev |-> NoEvent]
                 ELSE [ok |-> TRUE,
                       ev |-> Event(JStr(<<"AWS">>),
                                    PyOr(Get(fields, "eventType"),
                                         JStr(<<"Webinar">>)),
                                    Get(fields, "title"), desc.val,
                                    Get(item, "dateCreated"),
                                    Get(item, "dateUpdated"), JNull,
                                    PyOr(Get(fields, "ctaLink"),
                                         Get(fields, "primaryCTALink")))]

parse_aws(json_data) ==
  IF json_data.t # "dict" THEN Raised
  ELSE LET items == GetDefault(json_data, "items", JList(<<>>))
       IN IF ~Truthy(items) THEN Returned(<<>>)
          ELSE IF items.t # "list" THEN Raised
          ELSE Collect([i \in 1..Len(items.kids) |-> AwsItem(items.kids[i].v)])

----------------------------------------------------------------------------
(* Duplicate filter                                                        *)

\* subset=["title", "start_date", "source"]
NaturalKey(e) == << e.title, e.start_date, e.source >>

Keys(events) == {NaturalKey(events[i]) : i \in 1..Len(events)}

\* a list or a dict in a key column is unhashable
Hashable(e) ==
  /\ e.title.t \notin {"list", "dict"}
  /\ e.start_date.t \notin {"list", "dict"}
  /\ e.source.t \notin {"list", "dict"}

\* DataFrame.drop_duplicates(subset=...): keep="first", None equal to None
RECURSIVE DropDuplicates(_, _)
DropDuplicates(events, seen) ==
  IF events = <<>> THEN <<>>
  ELSE IF NaturalKey(Head(events)) \in seen
  THEN DropDuplicates(Tail(events), seen)
  ELSE <<Head(events)>>
       \o DropDuplicates(Tail(events), seen \cup {NaturalKey(Head(events))})

\* the mutated filter keeps the last record of each key
RECURSIVE DropDuplicatesKeepLast(_)
DropDuplicatesKeepLast(events) ==
  IF events = <<>> THEN <<>>
  ELSE IF NaturalKey(Head(events)) \in Keys(Tail(events))
  THEN DropDuplicatesKeepLast(Tail(events))
  ELSE <<Head(events)>> \o DropDuplicatesKeepLast(Tail(events))

remove_duplicates_keep_last(events) ==
  Returned(DropDuplicatesKeepLast(events))

remove_duplicates(events) ==
  IF events = <<>> THEN Returned(<<>>)
  ELSE IF \E i \in 1..Len(events) : ~Hashable(events[i]) THEN Raised
  ELSE Returned(DropDuplicates(events, {}))

----------------------------------------------------------------------------
(* Catalog store: table partner_events, unique over the natural key        *)

\* the mutated store has no unique key
InsertAlways(st, row) == Append(st, row)

\* INSERT IGNORE of one row
InsertIgnore(st, row) ==
  IF NaturalKey(row) \in Keys(st) THEN st ELSE Append(st, row)

RECURSIVE InsertAll(_, _)
InsertAll(st, events) ==
  IF events = <<>> THEN st
  ELSE InsertAll(InsertIgnore(st, Head(events)), Tail(events))

DbOutcomes == {"ok", "connect_fail", "write_fail"}

\* the mutated save_to_db connects to the store even for an empty batch
save_to_db_no_guard(events, st, outcome) ==
  IF outcome # "ok" THEN [ok |-> FALSE, store |-> st, ret |-> 0]
  ELSE [ok |-> TRUE, store |-> InsertAll(st, events),
        ret |-> Len(InsertAll(st, events)) - Len(st)]

\* the mutated save_to_db returns the number of rows it sent
save_to_db_counts_sent(events, st, outcome) ==
  IF events = <<>> THEN [ok |-> TRUE, store |-> st, ret |-> 0]
  ELSE IF outcome # "ok" THEN [ok |-> FALSE, store |-> st, ret |-> 0]
  ELSE [ok |-> TRUE, store |-> InsertAll(st, events), ret |-> Len(events)]

\* save_to_db(events) on store st; a failed connection or a failed write
\* raises before the commit and leaves the store as it was
save_to_db(events, st, outcome) ==
  IF events = <<>> THEN [ok |-> TRUE, store |-> st, ret |-> 0]
  ELSE IF outcome # "ok" THEN [ok |-> FALSE, store |-> st, ret |-> 0]
  ELSE LET before_count == Len(st)
           after == InsertAll(st, events)
           after_count == Len(after)
       IN [ok |-> TRUE, store |-> after, ret |-> after_count - before_count]

----------------------------------------------------------------------------
(* Inputs                                                                  *)

MaxWidth == 2
MaxLen == 3
MaxBatch == 2
MaxRuns == 2

T(x) == JStr(<<x>>)

SeqsUpTo(S, n) == UNION {[1..k -> S] : k \in 0..n}

uItemA ==
  JDict(<< KV("title", T("A")), KV("date", T("d1")),
           KV("slug", JStr(<<"/", "x">>)),
           KV("teaserBody",
              JStr(<<"<p>", "Hi", "&nbsp;", " ", "all", "&amp;", "</p>">>)) >>)
uItemA2 ==
  JDict(<< KV("title", T("A")), KV("date", T("d1")),
           KV("slug", JStr(<<"http", "s://e.com/x">>)),
           KV("category", T("Summit")), KV("body", T("other")) >>)
uItemB == JDict(<< KV("title", T("B")), KV("date", T("d2")) >>)

nItemA ==
  JDict(<< KV("title", T("A")), KV("startDate", T("d1")),
           KV("endDate", T("d2")), KV("venue", T("Hall")),
           KV("url", T("u")) >>)
nItemB ==
  JDict(<< KV("title", T("B")), KV("startDate", T("d1")),
           KV("type", T("Expo")), KV("location", T("City")) >>)

aWrap(fields, more) ==
  JDict(<< KV("item", JDict(<<KV("additionalFields", fields)>> \o more)) >>)
aItemA ==
  aWrap(JDict(<< KV("title", T("A")), KV("body", JStr(<<"a", " ", "\n", "b">>)),
                 KV("primaryCTALink", T("u")) >>),
        << KV("dateCreated", T("d1")), KV("dateUpdated", T("d2")) >>)
aItemNoTitle ==
  aWrap(JDict(<< KV("eventType", T("Talk")) >>), << KV("dateCreated", T("d1")) >>)
aItemNoTitle2 ==
  aWrap(JDict(<< KV("bodyBack", T("z")) >>), << KV("dateCreated", T("d1")) >>)

\* dicts of at most MaxWidth distinct keys, lists of at most MaxWidth elements
TreeKeys == {"resourceData", "a"}
DictsOver(S) ==
  {JDict(kv) : kv \in {q \in SeqsUpTo({KV(k, v) : k \in TreeKeys, v \in S}, MaxWidth) :
                         \A i, j \in 1..Len(q) : i # j => q[i].k # q[j].k}}
ListsOver(S) == {JList(q) : q \in SeqsUpTo(S, MaxWidth)}

TreeLeaves ==
  {JNull, T("A"), JList(<<>>), JList(<<uItemA>>), JList(<<uItemB>>)}
TreeLevel1 == TreeLeaves \cup DictsOver(TreeLeaves) \cup ListsOver(TreeLeaves)
TreePayloads == TreeLevel1 \cup DictsOver(TreeLevel1) \cup ListsOver(TreeLevel1)

UipathItemLists ==
  {JList(<<uItemA, uItemA2>>), JList(<<JDict(<<>>)>>), JList(<<JNum("7")>>),
   JList(<<JDict(<<KV("slug", JNum("7"))>>)>>),
   JList(<<JDict(<<KV("teaserBody", JNum("0")), KV("body", JList(<<JNull>>))>>)>>)}
NvidiaContainers ==
  {JNull, JNum("0"), JNum("7"), T("x"), JList(<<>>), JList(<<nItemA>>),
   JList(<<nItemA, JDict(<<>>)>>), JList(<<nItemB, T("x")>>),
   JDict(<<>>), JDict(<<KV("a", JNull)>>)}
AwsContainers ==
  {JNull, JNum("7"), JList(<<>>), JList(<<aItemA>>), JList(<<JDict(<<>>)>>),
   JList(<<aItemNoTitle, aItemA>>), JList(<<JDict(<<KV("item", JNull)>>)>>),
   JList(<<aWrap(JNull, <<>>)>>), JList(<<JNum("7")>>),
   JDict(<<KV("a", JNull)>>)}

AdapterPayloads ==
  TreePayloads
  \cup {JDict(<<KV("resourceData", x)>>) : x \in UipathItemLists}
  \cup NvidiaContainers \cup {JDict(<<KV("events", x)>>) : x \in NvidiaContainers}
  \cup AwsContainers \cup {JDict(<<KV("items", x)>>) : x \in AwsContainers}

\* unified events whose key fields are strings or null
SampleEvents ==
  {Event(T(src), T("Webinar"), ttl, T(d), T("d1"), JNull, JNull, JNull) :
     src \in {"AWS", "NVIDIA"}, ttl \in {JNull, T("A")}, d \in {"x", "y"}}

\* three natural keys, two of them with a null title, in two variants each
StoreEvents ==
  {e \in SampleEvents : e.source = T("AWS") \/ e.title = JNull}

----------------------------------------------------------------------------
(* The adapters applied to a payload                                       *)

AdapterIdle ==
  /\ pa_payload = JNull /\ pa_pc = "ready" /\ pa_result = Returned(<<>>)
DedupIdle == dd_in = <<>> /\ dd_pc = "ready" /\ dd_out = Returned(<<>>)
NoCall == [n |-> 0, ok |-> TRUE, ret |-> 0]
NoError == [kind |-> "none", source |-> "none"]
MainIdle ==
  /\ pc = "idle" /\ run = 0 /\ all_events = <<>>
  /\ log_counts = [uipath |-> <<>>, nvidia |-> <<>>, aws |-> <<>>,
                   total |-> <<>>, inserted_total |-> <<>>]
  /\ csv_files = <<>> /\ log = <<>> /\ trace = <<>> /\ error = NoError
  /\ first_inserted = 0 /\ store_at_start = 0 /\ log_at_start = 0
  /\ csv_at_start = 0

InitAdapters ==
  /\ pa_payload \in AdapterPayloads
  /\ pa_pc = "ready" /\ pa_result = Returned(<<>>)
  /\ DedupIdle /\ MainIdle /\ store = <<>> /\ last_call = NoCall

CallParseUipath ==
  /\ pa_pc = "ready"
  /\ pa_result' = parse_uipath(pa_payload)
  /\ pa_pc' = "parse_uipath"
  /\ UNCHANGED << pa_payload, dedupVars, mainVars, store, last_call >>

CallParseNvidia ==
  /\ pa_pc = "ready"
  /\ pa_result' = parse_nvidia(pa_payload)
  /\ pa_pc' = "parse_nvidia"
  /\ UNCHANGED << pa_payload, dedupVars, mainVars, store, last_call >>

CallParseAws ==
  /\ pa_pc = "ready"
  /\ pa_result' = parse_aws(pa_payload)
  /\ pa_pc' = "parse_aws"
  /\ UNCHANGED << pa_payload, dedupVars, mainVars, store, last_call >>

NextAdapters == CallParseUipath \/ CallParseNvidia \/ CallParseAws

SpecAdapters == InitAdapters /\ [][NextAdapters]_vars

----------------------------------------------------------------------------
(* remove_duplicates applied to a sequence of events                       *)

InitDedup ==
  /\ dd_in \in SeqsUpTo(SampleEvents, MaxLen)
  /\ dd_pc = "ready" /\ dd_out = Returned(<<>>)
  /\ AdapterIdle /\ MainIdle /\ store = <<>> /\ last_call = NoCall

CallRemoveDuplicates ==
  /\ dd_pc = "ready"
  /\ dd_out' = remove_duplicates(dd_in)
  /\ dd_pc' = "done"
  /\ UNCHANGED << dd_in, adapterVars, mainVars, store, last_call >>

NextDedup == CallRemoveDuplicates

SpecDedup == InitDedup /\ [][NextDedup]_vars

----------------------------------------------------------------------------
(* save_to_db called with arbitrary batches                                *)

InitStore ==
  /\ store = <<>> /\ last_call = NoCall
  /\ AdapterIdle /\ DedupIdle /\ MainIdle

CallSaveToDb ==
  \E batch \in SeqsUpTo(StoreEvents, MaxBatch), outcome \in DbOutcomes :
    LET r == save_to_db(batch, store, outcome)
    IN /\ store' = r.store
       /\ last_call' = [n |-> Len(batch), ok |-> r.ok, ret |-> r.ret]
       /\ UNCHANGED << adapterVars, dedupVars, mainVars >>

NextStore == CallSaveToDb

SpecStore == InitStore /\ [][NextStore]_vars

----------------------------------------------------------------------------
(* The pipeline main()                                                     *)

UipathFeeds ==
  {JDict(<<KV("result",
              JDict(<<KV("pageContext", JNull),
                      KV("resourceData", JList(<<uItemA, uItemA2>>))>>))>>),
   JDict(<<KV("result", JNull)>>),
   JDict(<<KV("resourceData", JList(<<JNum("7")>>))>>)}
NvidiaFeeds ==
  {JDict(<<KV("events", JList(<<nItemA, nItemB>>))>>), JDict(<<>>), JNum("7")}
AwsFeeds ==
  {JDict(<<KV("items", JList(<<aItemNoTitle, aItemNoTitle2>>))>>),
   JDict(<<KV("items", JList(<<>>))>>), JList(<<>>)}

\* fetch_json(url): the payload, or an exception (network error, timeout,
\* non-success status, body that is not JSON)
fetch_json(feeds) ==
  {[ok |-> FALSE, json |-> JNull]} \cup {[ok |-> TRUE, json |-> p] : p \in feeds}

\* log_data.get(key, 0)
LogGet(log_data, key) ==
  IF log_data[key] = <<>> THEN 0 ELSE log_data[key][1]

\* the block write_log appends to scraper_log.txt
LogBlock(log_data) ==
  [aws |-> LogGet(log_data, "aws"), nvidia |-> LogGet(log_data, "nvidia"),
   uipath |-> LogGet(log_data, "uipath"), total |-> LogGet(log_data, "total"),
   inserted_total |-> LogGet(log_data, "inserted_total")]

\* an exception nothing catches ends the run
Abort(kind, name) ==
  /\ pc' = "aborted"
  /\ error' = [kind |-> kind, source |-> name]
  /\ UNCHANGED << run, all_events, log_counts, csv_files, log, trace,
                  first_inserted, store_at_start, log_at_start, csv_at_start,
                  store >>

\* a run of the script starts: all_events = [], log_counts = {}
StartRun ==
  /\ pc \in {"idle", "done", "aborted"}
  /\ run < MaxRuns
  /\ run' = run + 1
  /\ pc' = "uipath"
  /\ all_events' = <<>>
  /\ log_counts' = [uipath |-> <<>>, nvidia |-> <<>>, aws |-> <<>>,
                    total |-> <<>>, inserted_total |-> <<>>]
  /\ trace' = <<>>
  /\ error' = NoError
  /\ first_inserted' = 0
  /\ store_at_start' = Len(store)
  /\ log_at_start' = Len(log)
  /\ csv_at_start' = Len(csv_files)
  /\ UNCHANGED << csv_files, log, store, last_call, adapterVars, dedupVars >>

\* the adapter main applies to a source's payload
Adapt(name, json_data) ==
  CASE name = "uipath" -> parse_uipath(json_data)
    [] name = "nvidia" -> parse_nvidia(json_data)
    [] OTHER -> parse_aws(json_data)

\* fetch_json, the adapter, log_counts[name] = len(...), all_events.extend(...)
SourceStep(nextStage, feeds, name) ==
  \E f \in fetch_json(feeds) :
    IF ~f.ok THEN Abort("fetch", name)
    ELSE LET r == Adapt(name, f.json)
         IN IF ~r.ok THEN Abort("adapt", name)
            ELSE /\ log_counts' = [log_counts EXCEPT ![name] = <<Len(r.events)>>]
                 /\ all_events' = all_events \o r.events
                 /\ pc' = nextStage
                 /\ UNCHANGED << run, csv_files, log, trace, error,
                                 first_inserted, store_at_start,
                                 log_at_start, csv_at_start, store >>

StepUipath ==
  /\ pc = "uipath"
  /\ SourceStep("nvidia", UipathFeeds, "uipath")
  /\ UNCHANGED << last_call, adapterVars, dedupVars >>

StepNvidia ==
  /\ pc = "nvidia"
  /\ SourceStep("aws", NvidiaFeeds, "nvidia")
  /\ UNCHANGED << last_call, adapterVars, dedupVars >>

StepAws ==
  /\ pc = "aws"
  /\ SourceStep("dedup", AwsFeeds, "aws")
  /\ UNCHANGED << last_call, adapterVars, dedupVars >>

StepRemoveDuplicates ==
  /\ pc = "dedup"
  /\ LET r == remove_duplicates(all_events)
     IN IF ~r.ok THEN Abort("dedup", "none")
        ELSE /\ all_events' = r.events
             /\ log_counts' = [log_counts EXCEPT !["total"] = <<Len(r.events)>>]
             /\ pc' = "csv"
             /\ UNCHANGED << run, csv_files, log, trace, error, first_inserted,
                             store_at_start, log_at_start, csv_at_start, store >>
  /\ UNCHANGED << last_call, adapterVars, dedupVars >>

\* save_to_csv writes no file for an empty batch
StepSaveToCsv ==
  /\ pc = "csv"
  /\ csv_files' = IF all_events = <<>> THEN csv_files
                  ELSE Append(csv_files, all_events)
  /\ trace' = Append(trace, "save_to_csv")
  /\ pc' = "db1"
  /\ UNCHANGED << run, all_events, log_counts, log, error, first_inserted,
                  store_at_start, log_at_start, csv_at_start, store,
                  last_call, adapterVars, dedupVars >>

\* save_to_db(all_events), the result dropped
StepSaveToDb ==
  /\ pc = "db1"
  /\ \E outcome \in DbOutcomes :
       LET r == save_to_db(all_events, store, outcome)
       IN IF ~r.ok THEN Abort("persist", "none")
          ELSE /\ store' = r.store
               /\ first_inserted' = r.ret
               /\ trace' = Append(trace, "save_to_db")
               /\ pc' = "db2"
               /\ UNCHANGED << run, all_events, log_counts, csv_files, log,
                               error, store_at_start, log_at_start,
                               csv_at_start >>
  /\ UNCHANGED << last_call, adapterVars, dedupVars >>

\* inserted_total = save_to_db(all_events)
StepSaveToDbAgain ==
  /\ pc = "db2"
  /\ \E outcome \in DbOutcomes :
       LET r == save_to_db(all_events, store, outcome)
       IN IF ~r.ok THEN Abort("persist", "none")
          ELSE /\ store' = r.store
               /\ log_counts' =
                    [log_counts EXCEPT !["inserted_total"] = <<r.ret>>]
               /\ trace' = Append(trace, "save_to_db")
               /\ pc' = "log"
               /\ UNCHANGED << run, all_events, csv_files, log, error,
                               first_inserted, store_at_start, log_at_start,
                               csv_at_start >>
  /\ UNCHANGED << last_call, adapterVars, dedupVars >>

StepWriteLog ==
  /\ pc = "log"
  /\ log' = Append(log, LogBlock(log_counts))
  /\ trace' = Append(trace, "write_log")
  /\ pc' = "done"
  /\ UNCHANGED << run, all_events, log_counts, csv_files, error,
                  first_inserted, store_at_start, log_at_start, csv_at_start,
                  store, last_call, adapterVars, dedupVars >>

MainStep ==
  \/ StepUipath \/ StepNvidia \/ StepAws \/ StepRemoveDuplicates
  \/ StepSaveToCsv \/ StepSaveToDb \/ StepSaveToDbAgain \/ StepWriteLog

Init ==
  /\ MainIdle /\ store = <<>> /\ last_call = NoCall
  /\ AdapterIdle /\ DedupIdle

Next == StartRun \/ MainStep

Spec == Init /\ [][Next]_vars

----------------------------------------------------------------------------
(* Properties                                                              *)

\* C1: the store never holds two rows with equal (title, start_date, source),
\* whatever batches save_to_db was called with, null titles included.
C1_StoreKeysUnique ==
  \A i, j \in 1..Len(store) :
    i # j => NaturalKey(store[i]) # NaturalKey(store[j])

\* a batch of two records sharing a null-title key went into the empty store
\* and left one row
C1_NullTitlePairStoredOnce ==
  /\ last_call.ok /\ last_call.n = 2 /\ last_call.ret = 1
  /\ Len(store) = 1 /\ store[1].title = JNull

\* the rows the store held when the run started (rows are only appended)
StoreAtStart == SubSeq(store, 1, store_at_start)

\* C2: of main's two consecutive save_to_db calls on the same deduplicated
\* batch, the first returns, and adds to the store, the number of the batch's
\* keys the store did not hold; the second adds nothing and returns zero.
C2_SecondCallInsertsNothing ==
  /\ pc \in {"db2", "log", "done"} =>
       /\ first_inserted = Cardinality(Keys(all_events) \ Keys(StoreAtStart))
       /\ Len(store) = store_at_start + first_inserted
  /\ pc \in {"log", "done"} => LogGet(log_counts, "inserted_total") = 0

\* both calls returned, the first having inserted part of the batch
C2_PartlyNewBatchSavedTwice ==
  /\ pc = "log"
  /\ first_inserted > 0 /\ first_inserted < Len(all_events)

FirstIndex(events, key) ==
  CHOOSE i \in 1..Len(events) :
    /\ NaturalKey(events[i]) = key
    /\ \A j \in 1..(i - 1) : NaturalKey(events[j]) # key

\* C3: remove_duplicates returns one record per distinct key, the first
\* record of that key in the input, in order of first occurrence; records
\* with a null title and equal start_date and source share a key.
C3_FirstOccurrencePerKey ==
  dd_pc = "done" =>
    LET out == dd_out.events
    IN /\ dd_out.ok
       /\ Len(out) = Cardinality(Keys(dd_in))
       /\ \A i \in 1..Len(out) : NaturalKey(out[i]) \in Keys(dd_in)
       /\ \A i \in 1..Len(out) :
            out[i] = dd_in[FirstIndex(dd_in, NaturalKey(out[i]))]
       /\ \A i, j \in 1..Len(out) :
            i < j => FirstIndex(dd_in, NaturalKey(out[i]))
                       < FirstIndex(dd_in, NaturalKey(out[j]))

\* two different records with a null title and the same key were collapsed,
\* with a record of another key between them
C3_NullTitlePairCollapsed ==
  /\ dd_pc = "done" /\ Len(dd_in) = 3 /\ Len(dd_out.events) = 2
  /\ dd_in[1].title = JNull /\ dd_in[1] # dd_in[3]
  /\ NaturalKey(dd_in[1]) = NaturalKey(dd_in[3])

\* C4: a source whose fetch or adapter fails does not end the run, and the
\* run log records zero for it.
C4_SourceFailureIsolated ==
  error.kind \in {"fetch", "adapt"} =>
    /\ pc # "aborted"
    /\ pc = "done" =>
         /\ Len(log) = log_at_start + 1
         /\ log[Len(log)][error.source] = 0

\* C5: the newly-inserted count in the run's log block is the number of rows
\* the run added to the store.
C5_LoggedInsertedIsGrowth ==
  pc = "done" => log[Len(log)].inserted_total = Len(store) - store_at_start

\* C6: a run calls save_to_db once, after save_to_csv and before write_log.
C6_OneInsertPerRun ==
  pc = "done" => trace = <<"save_to_csv", "save_to_db", "write_log">>

\* C7: when the persistence step fails, the snapshot was exported and a log
\* block for the run is still appended.
C7_PersistFailureLogged ==
  (pc = "aborted" /\ error.kind = "persist") =>
    /\ Len(csv_files) = csv_at_start + 1
    /\ Len(log) = log_at_start + 1

\* the first list under a key "resourceData" in depth-first order
RECURSIVE FirstMarker(_)
RECURSIVE FirstMarkerIn(_, _)
FirstMarkerIn(kids, i) ==
  IF i > Len(kids) THEN [found |-> FALSE, val |-> JNull]
  ELSE IF kids[i].k = "resourceData" /\ kids[i].v.t = "list"
  THEN [found |-> TRUE, val |-> kids[i].v]
  ELSE LET m == FirstMarker(kids[i].v)
       IN IF m.found THEN m ELSE FirstMarkerIn(kids, i + 1)
FirstMarker(obj) ==
  IF obj.t \in {"dict", "list"} THEN FirstMarkerIn(obj.kids, 1)
  ELSE [found |-> FALSE, val |-> JNull]

ContainerAbsent(adapter, payload) ==
  CASE adapter = "parse_uipath" -> ~FirstMarker(payload).found
    [] adapter = "parse_nvidia" ->
         payload.t # "list" /\ ~(payload.t = "dict" /\ HasKey(payload, "events"))
    [] OTHER -> ~(payload.t = "dict" /\ HasKey(payload, "items"))

\* C8: on any JSON value an adapter returns without raising, returns no
\* events when its container is absent, and gives every event a source and
\* a category.
C8_AdaptersNeverRaise ==
  pa_pc # "ready" =>
    /\ pa_result.ok
    /\ ContainerAbsent(pa_pc, pa_payload) => pa_result.events = <<>>
    /\ \A i \in 1..Len(pa_result.events) :
         /\ pa_result.events[i].source.t = "str"
         /\ Truthy(pa_result.events[i].category)

\* C9: parse_uipath builds its events from the first list under a key
\* "resourceData" in depth-first order and from no later one, and returns
\* none when there is no such key.
C9_ItemsFromFirstMarker ==
  pa_pc = "parse_uipath" =>
    LET m == FirstMarker(pa_payload)
    IN pa_result = IF m.found /\ m.val.kids # <<>>
                   THEN UipathEvents(m.val)
                   ELSE Returned(<<>>)

ZeroCounts ==
  /\ log_counts.uipath = <<0>>
  /\ log_counts.nvidia = <<0>>
  /\ log_counts.aws = <<0>>

\* C10: when every adapter returned no events the run is not aborted, each
\* remaining step can be taken, the deduplicated batch is empty, the store
\* keeps its rows, and the block appended to the log holds zeros.
C10_EmptyRunCompletes ==
  ZeroCounts =>
    /\ pc # "aborted"
    /\ all_events = <<>>
    /\ store = StoreAtStart
    /\ pc \in {"dedup", "csv", "db1", "db2", "log"} => ENABLED MainStep
    /\ pc \in {"csv", "db1", "db2", "log", "done"} =>
         LogGet(log_counts, "total") = 0
    /\ pc = "done" =>
         /\ Len(log) = log_at_start + 1
         /\ log[Len(log)] = [aws |-> 0, nvidia |-> 0, uipath |-> 0,
                             total |-> 0, inserted_total |-> 0]

\* a run in which every adapter returned no events wrote its log block
C10_EmptyRunLogged == pc = "done" /\ ZeroCounts

====
